---- MODULE Spec2Model ----
(***************************************************************************)
(* Model of the computational kernel of app.py: xor_division (modulo-2     *)
(* division), compute_syndrome and simple_berlekamp_like_decoder, run in   *)
(* the order the script runs them (line 77 then line 94).                  *)
(*                                                                         *)
(* Python lists are objects: `mem` holds the list objects of one run, and  *)
(* the local names `dividend` (xor_division) and `test` (decoder) are      *)
(* references into it, so that working on a copy and working on the        *)
(* caller's list are different behaviours of the model.  Indices in the    *)
(* model's state and messages are the 0-based indices of the code;         *)
(* sequences are 1-based, so index i of the code is element i + 1.         *)
(***************************************************************************)
EXTENDS Integers, Sequences, FiniteSets, TLC

VARIABLES
    generator_str,  \* text of the generator input (line 60)
    received_str,   \* text of the received-codeword input (line 66)
    mem,            \* the list objects: received, generator, syndrome, test, work
    pc,             \* position of the script
    caller,         \* who called compute_syndrome: "main" (line 77) or "decoder" (line 41)
    arg,            \* the object passed as `dividend` to xor_division
    dividend,       \* the object the local name `dividend` is bound to after line 20
    offs,           \* offsets of range(...) of line 21 not yet visited
    di,             \* loop variable i of xor_division (-1: not yet bound)
    test,           \* the object the decoder's local name `test` is bound to
    scan,           \* indices of range(len(received)) of line 38 not yet visited
    i,              \* loop variable i of the decoder (-1: not yet bound)
    tried,          \* the indices whose bit the decoder flipped, in order
    corrected,      \* the object returned as first component by the decoder
    message         \* the status returned as second component by the decoder

vars == <<generator_str, received_str, mem, pc, caller, arg, dividend, offs, di,
          test, scan, i, tried, corrected, message>>

\* ------------------------------------------------------------------ bounds
MaxLen == 4
MaxGenLen == 3

\* --------------------------------------------------------- sidebar defaults
DefaultGeneratorStr == <<"1", "0", "1", "1">>
DefaultReceivedStr == <<"1", "1", "0", "1", "0", "0", "1">>

\* ------------------------------------------------------------ pure helpers
BitStrings(lo, hi) == UNION {[1..n -> {"0", "1"}] : n \in lo..hi}

\* [int(x) for x in text]
ParseBits(text) == [k \in 1..Len(text) |-> IF text[k] = "1" THEN 1 ELSE 0]

\* range(n)
Range(n) == [k \in 1..(IF n > 0 THEN n ELSE 0) |-> k - 1]

\* range(len(dividend) - len(divisor) + 1)
DivOffsets(ld, lg) == Range(ld - lg + 1)

\* faulty variant: reversed(range(len(received)))
DecoderScan_Reversed(n) == [k \in 1..(IF n > 0 THEN n ELSE 0) |-> n - k]

\* faulty variant: range(len(received) - 1)
DecoderScan_Short(n) == [k \in 1..(IF n > 1 THEN n - 1 ELSE 0) |-> k - 1]

\* range(len(received))
DecoderScan(n) == Range(n)

\* faulty variant: syndrome == [0, 0, 0]
AllZero_Fixed3(v) == v = <<0, 0, 0>>

\* faulty variant: any(s == 0 for s in v)
AllZero_Any(v) == \E k \in 1..Len(v) : v[k] = 0

\* all(s == 0 for s in v)
AllZero(v) == \A k \in 1..Len(v) : v[k] = 0

\* faulty variant: v[-len(divisor):]
Suffix_Long(v, k) ==
    SubSeq(v, (IF Len(v) - (k + 1) > 0 THEN Len(v) - (k + 1) ELSE 0) + 1, Len(v))

\* v[-k:] for k >= 0; -0 is 0, so v[-0:] is the whole list
Suffix(v, k) ==
    IF k = 0 THEN v
    ELSE SubSeq(v, (IF Len(v) - k > 0 THEN Len(v) - k ELSE 0) + 1, Len(v))

\* faulty variant: for j in range(1, len(divisor))
XorInner_SkipFirst(d, g, o) ==
    [k \in 1..Len(d) |->
        IF k - 1 > o /\ k - 1 < o + Len(g) THEN (d[k] + g[k - o]) % 2 ELSE d[k]]

\* for j in range(len(divisor)): dividend[o + j] ^= divisor[j]
XorInner(d, g, o) ==
    [k \in 1..Len(d) |->
        IF k - 1 >= o /\ k - 1 < o + Len(g) THEN (d[k] + g[k - o]) % 2 ELSE d[k]]

\* one iteration of the outer loop at offset o
XorOuterStep(d, g, o) == IF d[o + 1] = 1 THEN XorInner(d, g, o) ELSE d

RECURSIVE XorLoop(_, _, _)
XorLoop(d, g, os) ==
    IF os = <<>> THEN d ELSE XorLoop(XorOuterStep(d, g, Head(os)), g, Tail(os))

xor_division(d, g) ==
    Suffix(XorLoop(d, g, DivOffsets(Len(d), Len(g))), Len(g) - 1)

compute_syndrome(r, g) == xor_division(r, g)

\* faulty variant: test[o] |= 1
FlipBit_Or(v, o) == [v EXCEPT ![o + 1] = 1]

\* test[o] ^= 1
FlipBit(v, o) == [v EXCEPT ![o + 1] = (v[o + 1] + 1) % 2]

\* faulty variant: no copy, the local name stays bound to the caller's list
DividendCopy_Alias(src) == src

\* dividend = dividend.copy(): the local name is bound to a fresh list
DividendCopy(src) == "work"

\* faulty variant: test = received
TestCopy_Alias(src) == src

\* test = received.copy(): the local name is bound to a fresh list
TestCopy(src) == "test"

NoErrorMsg == "No error detected"
CorrectedMsg == "Single-bit error corrected at position "
UnableMsg == "Unable to correct (multiple errors)"

\* f"Single-bit error corrected at position {i}"
CorrectedAt(o) == <<CorrectedMsg, o>>

\* ------------------------------------------------------------------- state
InitWith(gs, rs) ==
    /\ generator_str = gs
    /\ received_str = rs
    /\ mem = [received |-> ParseBits(rs), generator |-> ParseBits(gs),
              syndrome |-> <<>>, test |-> <<>>, work |-> <<>>]
    /\ pc = "syndrome"
    /\ caller = "none"
    /\ arg = "none"
    /\ dividend = "none"
    /\ offs = <<>>
    /\ di = -1
    /\ test = "none"
    /\ scan = <<>>
    /\ i = -1
    /\ tried = <<>>
    /\ corrected = "none"
    /\ message = <<>>

Init ==
    \E gs \in BitStrings(1, MaxGenLen), rs \in BitStrings(0, MaxLen) : InitWith(gs, rs)

InitDefault ==
    \E rs \in BitStrings(0, Len(DefaultReceivedStr)) : InitWith(DefaultGeneratorStr, rs)

\* entry of xor_division(a, generator): line 20 and the range of line 21
EnterDivision(m, a, who) ==
    /\ mem' = [m EXCEPT !.work = m[a]]
    /\ arg' = a
    /\ dividend' = DividendCopy(a)
    /\ offs' = DivOffsets(Len(m[a]), Len(m.generator))
    /\ di' = -1
    /\ caller' = who
    /\ pc' = "div"

\* line 77: syndrome = compute_syndrome(received, generator)
SyndromeCall ==
    /\ pc = "syndrome"
    /\ EnterDivision(mem, "received", "main")
    /\ UNCHANGED <<generator_str, received_str, test, scan, i, tried, corrected, message>>

\* lines 21-24: one iteration of the outer loop of xor_division
XorStep ==
    /\ pc = "div"
    /\ offs # <<>>
    /\ di' = Head(offs)
    /\ offs' = Tail(offs)
    /\ mem' = [mem EXCEPT ![dividend] = XorOuterStep(mem[dividend], mem.generator, Head(offs))]
    /\ UNCHANGED <<generator_str, received_str, pc, caller, arg, dividend,
                   test, scan, i, tried, corrected, message>>

\* line 25 returning to line 77
ReturnToMain ==
    /\ pc = "div"
    /\ offs = <<>>
    /\ caller = "main"
    /\ mem' = [mem EXCEPT !.syndrome = Suffix(mem[dividend], Len(mem.generator) - 1)]
    /\ pc' = "decode"
    /\ UNCHANGED <<generator_str, received_str, caller, arg, dividend, offs, di,
                   test, scan, i, tried, corrected, message>>

\* line 94 and lines 35-36: the zero-syndrome check
DecoderEntry ==
    /\ pc = "decode"
    /\ IF AllZero(mem.syndrome)
       THEN /\ corrected' = "received"
            /\ message' = <<NoErrorMsg>>
            /\ pc' = "done"
            /\ scan' = scan
       ELSE /\ scan' = DecoderScan(Len(mem.received))
            /\ pc' = "scan"
            /\ UNCHANGED <<corrected, message>>
    /\ UNCHANGED <<generator_str, received_str, mem, caller, arg, dividend, offs, di,
                   test, i, tried>>

\* lines 38-41: copy, flip bit i, call compute_syndrome(test, generator)
TrialFlip ==
    /\ pc = "scan"
    /\ scan # <<>>
    /\ LET o == Head(scan)
           t == TestCopy("received")
           m1 == [mem EXCEPT !.test = mem.received]
           m2 == [m1 EXCEPT ![t] = FlipBit(m1[t], o)]
       IN /\ i' = o
          /\ scan' = Tail(scan)
          /\ test' = t
          /\ tried' = Append(tried, o)
          /\ EnterDivision(m2, t, "decoder")
    /\ UNCHANGED <<generator_str, received_str, corrected, message>>

\* line 25 returning to line 41, and line 42
ReturnToDecoder ==
    /\ pc = "div"
    /\ offs = <<>>
    /\ caller = "decoder"
    /\ IF AllZero(Suffix(mem[dividend], Len(mem.generator) - 1))
       THEN /\ corrected' = test
            /\ message' = CorrectedAt(i)
            /\ pc' = "done"
       ELSE /\ pc' = "scan"
            /\ UNCHANGED <<corrected, message>>
    /\ UNCHANGED <<generator_str, received_str, mem, caller, arg, dividend, offs, di,
                   test, scan, i, tried>>

\* line 44: the scan is exhausted
ScanExhausted ==
    /\ pc = "scan"
    /\ scan = <<>>
    /\ corrected' = "received"
    /\ message' = <<UnableMsg>>
    /\ pc' = "done"
    /\ UNCHANGED <<generator_str, received_str, mem, caller, arg, dividend, offs, di,
                   test, scan, i, tried>>

Next ==
    \/ SyndromeCall
    \/ XorStep
    \/ ReturnToMain
    \/ DecoderEntry
    \/ TrialFlip
    \/ ReturnToDecoder
    \/ ScanExhausted

Spec == Init /\ [][Next]_vars

SpecDefault == InitDefault /\ [][Next]_vars

\* ------------------------------------------------- vocabulary of the claims
\* the vectors the user entered
InputReceived == [k \in 1..Len(received_str) |-> IF received_str[k] = "1" THEN 1 ELSE 0]
InputGenerator == [k \in 1..Len(generator_str) |-> IF generator_str[k] = "1" THEN 1 ELSE 0]

IsZeroVector(v) == \A k \in DOMAIN v : v[k] = 0

\* v with the bit at 0-based index o replaced by its complement
FlippedAt(v, o) == [k \in 1..Len(v) |-> IF k = o + 1 THEN 1 - v[k] ELSE v[k]]

\* the vector has an all-zero syndrome against the generator
Clean(v) == IsZeroVector(compute_syndrome(v, InputGenerator))

Indices == 0..(Len(received_str) - 1)

\* the name `syndrome` of line 77 is bound
SyndromeBound == pc \in {"decode", "scan", "done"} \/ (pc = "div" /\ caller = "decoder")

\* the vector returned by the decoder (meaningful once pc = "done")
Returned == mem[corrected]

ReportsCorrected == pc = "done" /\ Len(message) = 2 /\ message[1] = CorrectedMsg

\* ---------------------------------------------------------------------- C1
\* C1 (as stated): for every generator, clean codeword c and index o, with r
\* = c with bit o flipped: if no j < o makes r clean when flipped, decoding r
\* returns c with the status "corrected at position o".
C1_Original ==
    pc = "done" =>
        \A o \in Indices :
            (/\ Clean(FlippedAt(InputReceived, o))
             /\ \A j \in 0..(o - 1) : ~Clean(FlippedAt(InputReceived, j)))
            => (/\ Returned = FlippedAt(InputReceived, o)
                /\ message = <<"Single-bit error corrected at position ", o>>)

\* C1 (amended): the same, provided the syndrome of r itself is not all zero.
C1_Amended ==
    pc = "done" =>
        \A o \in Indices :
            (/\ Clean(FlippedAt(InputReceived, o))
             /\ ~Clean(InputReceived)
             /\ \A j \in 0..(o - 1) : ~Clean(FlippedAt(InputReceived, j)))
            => (/\ Returned = FlippedAt(InputReceived, o)
                /\ message = <<"Single-bit error corrected at position ", o>>)

C1_Witness ==
    /\ pc = "done"
    /\ ~Clean(InputReceived)
    /\ \E o \in Indices :
        /\ o >= 2
        /\ InputReceived[o + 1] = 1
        /\ Clean(FlippedAt(InputReceived, o))
        /\ \A j \in 0..(o - 1) : ~Clean(FlippedAt(InputReceived, j))
        /\ message = <<"Single-bit error corrected at position ", o>>

\* ---------------------------------------------------------------------- C2
\* C2: for a non-empty divisor (also of length 1) and a dividend at least as
\* long, the vector xor_division returns has length len(divisor) - 1.
C2_RemainderLength ==
    (SyndromeBound /\ Len(InputReceived) >= Len(InputGenerator)) =>
        Len(mem.syndrome) = Len(InputGenerator) - 1

\* ---------------------------------------------------------------------- C3
\* C3: a vector whose syndrome is all zero is returned unchanged with the
\* status "No error detected", and no bit flip is tried.
C3_NoError ==
    (SyndromeBound /\ IsZeroVector(mem.syndrome)) =>
        /\ mem.syndrome = compute_syndrome(InputReceived, InputGenerator)
        /\ tried = <<>>
        /\ pc \in {"decode", "done"}
        /\ pc = "done" => /\ corrected = "received"
                          /\ Returned = InputReceived
                          /\ message = <<"No error detected">>

C3_Witness ==
    /\ pc = "done"
    /\ IsZeroVector(mem.syndrome)
    /\ Len(InputReceived) > Len(InputGenerator)
    /\ ~IsZeroVector(InputReceived)
    /\ message = <<"No error detected">>

\* ---------------------------------------------------------------------- C4
\* C4: a vector with a non-zero syndrome that no single-bit flip makes clean
\* is returned unmodified with the status "Unable to correct (multiple
\* errors)", as a result value.
C4_Unable ==
    (/\ pc = "done"
     /\ ~Clean(InputReceived)
     /\ \A o \in Indices : ~Clean(FlippedAt(InputReceived, o)))
    => /\ corrected = "received"
       /\ Returned = InputReceived
       /\ message = <<"Unable to correct (multiple errors)">>

C4_Witness ==
    /\ pc = "done"
    /\ ~Clean(InputReceived)
    /\ \A o \in Indices : ~Clean(FlippedAt(InputReceived, o))
    /\ Len(tried) = Len(InputReceived)
    /\ Len(InputReceived) >= 4
    /\ message = <<"Unable to correct (multiple errors)">>

\* ---------------------------------------------------------------------- C5
\* C5: with a non-zero syndrome the decoder scans the indices in ascending
\* order; the position it reports is the lowest index whose flip makes the
\* vector clean, and no higher index is examined.
C5_LowestIndex ==
    /\ \A k \in 1..Len(tried) : tried[k] = k - 1
    /\ ReportsCorrected =>
        /\ ~IsZeroVector(mem.syndrome)
        /\ Clean(FlippedAt(InputReceived, message[2]))
        /\ \A j \in 0..(message[2] - 1) : ~Clean(FlippedAt(InputReceived, j))
        /\ Len(tried) = message[2] + 1
    /\ (/\ pc = "done"
        /\ ~IsZeroVector(mem.syndrome)
        /\ \E o \in Indices : Clean(FlippedAt(InputReceived, o)))
       => ReportsCorrected

C5_Witness ==
    /\ ReportsCorrected
    /\ message[2] >= 1
    /\ \E q \in Indices : q > message[2] /\ Clean(FlippedAt(InputReceived, q))

\* ---------------------------------------------------------------------- C6
\* C6: no step of xor_division, compute_syndrome or the decoder changes the
\* caller's received vector, the generator, the bound syndrome or the vector
\* passed as dividend; the XORs go to a private copy.
C6_NoInputMutation ==
    [][/\ mem'.received = mem.received
       /\ mem'.generator = mem.generator
       /\ mem.received = InputReceived
       /\ mem.generator = InputGenerator
       /\ SyndromeBound => mem'.syndrome = mem.syndrome
       /\ pc = "div" => (mem'[arg] = mem[arg] /\ dividend \notin {arg, "received", "generator", "syndrome"})
       /\ test # "none" => test \notin {"received", "generator", "syndrome"}]_vars

C6_Witness ==
    /\ pc = "div"
    /\ caller = "decoder"
    /\ offs = <<>>
    /\ mem.work # mem.test
    /\ mem.test # mem.received
    /\ mem.received = InputReceived

\* ---------------------------------------------------------------------- C7
\* C7: for generator 1011 and received 1101001 the syndrome has exactly 3
\* bits, all zero, and the decoder returns 1101001 unchanged with the status
\* "No error detected".
C7_DefaultExample ==
    (generator_str = <<"1", "0", "1", "1">> /\ received_str = <<"1", "1", "0", "1", "0", "0", "1">>) =>
        /\ mem.generator = <<1, 0, 1, 1>>
        /\ mem.received = <<1, 1, 0, 1, 0, 0, 1>>
        /\ SyndromeBound => mem.syndrome = <<0, 0, 0>>
        /\ tried = <<>>
        /\ pc = "done" => /\ Returned = <<1, 1, 0, 1, 0, 0, 1>>
                          /\ message = <<"No error detected">>

C7_Witness ==
    /\ generator_str = <<"1", "0", "1", "1">>
    /\ received_str = <<"1", "1", "0", "1", "0", "0", "1">>
    /\ pc = "done"
    /\ mem.syndrome = <<0, 0, 0>>

\* ---------------------------------------------------------------------- C8
\* C8: the returned vector has the length of the received one; when the
\* status reports a correction at position p, the syndrome was not all
\* zero, the returned vector differs from the received one exactly at p, and
\* the returned vector is clean.
C8_Soundness ==
    pc = "done" =>
        /\ Len(Returned) = Len(InputReceived)
        /\ ReportsCorrected =>
            /\ ~IsZeroVector(compute_syndrome(InputReceived, InputGenerator))
            /\ message[2] \in Indices
            /\ \A k \in 1..Len(InputReceived) :
                   (Returned[k] # InputReceived[k]) <=> (k = message[2] + 1)
            /\ Clean(Returned)

C8_Witness ==
    /\ ReportsCorrected
    /\ Len(InputGenerator) >= 3
    /\ message[2] >= 1
    /\ Returned # InputReceived
    /\ Clean(Returned)

\* ---------------------------------------------------------------------- C9
\* C9: for a divisor with first bit 1 and a dividend at least as long, after
\* the step at offset o the working copy is 0 at indices 0..o, these indices
\* are not written again, and at the end of the pass the indices
\* 0..len(d)-len(g) are all 0.
C9_PrefixCleared ==
    [][(/\ pc' = "div"
        /\ mem'.generator[1] = 1
        /\ Len(mem'[arg']) >= Len(mem'.generator))
       => /\ \A k \in 0..di' : mem'[dividend'][k + 1] = 0
          /\ offs' = <<>> =>
                \A k \in 0..(Len(mem'[arg']) - Len(mem'.generator)) : mem'[dividend'][k + 1] = 0
          /\ pc = "div" =>
                \A k \in 0..di : mem'[dividend'][k + 1] = mem[dividend][k + 1]]_vars

C9_Witness ==
    /\ pc = "div"
    /\ offs = <<>>
    /\ mem.generator[1] = 1
    /\ Len(mem.generator) >= 2
    /\ di >= 2
    /\ mem[arg][1] = 1
    /\ mem[arg][3] = 1
    /\ \A k \in 0..di : mem[dividend][k + 1] = 0

\* --------------------------------------------------------------------- C10
\* C10: with generator 1011 and a 7-bit received vector the status "Unable
\* to correct (multiple errors)" is never returned: the vector is reported
\* clean, or exactly one index makes it clean when flipped and the
\* correction is reported there; a vector two bit errors away from a clean
\* codeword is changed in a third position.
C10_NeverUnable ==
    (/\ pc = "done"
     /\ generator_str = <<"1", "0", "1", "1">>
     /\ Len(received_str) = 7)
    => /\ message # <<"Unable to correct (multiple errors)">>
       /\ \/ message = <<"No error detected">>
          \/ /\ ReportsCorrected
             /\ {o \in Indices : Clean(FlippedAt(InputReceived, o))} = {message[2]}
       /\ \A a, b \in Indices :
            (a # b /\ Clean(FlippedAt(FlippedAt(InputReceived, a), b)))
            => /\ ReportsCorrected
               /\ message[2] \notin {a, b}
               /\ Returned = FlippedAt(InputReceived, message[2])

C10_Witness ==
    /\ pc = "done"
    /\ generator_str = <<"1", "0", "1", "1">>
    /\ Len(received_str) = 7
    /\ ReportsCorrected
    /\ message[2] = 6
    /\ \E a, b \in Indices : a # b /\ Clean(FlippedAt(FlippedAt(InputReceived, a), b))

====
